---- MODULE Spec2Model ----
(***************************************************************************)
(* Image Filter Studio (src/src/App.js): the full-resolution draw pipeline *)
(* (drawFull, applyKernel, applySobel) and the snapshot history            *)
(* (pushHistory, undo, redo, restoreFromDataURL) of the App component,     *)
(* together with the callbacks React and the browser run for it            *)
(* (image.onload, the redraw effect, img2.onload).                         *)
(***************************************************************************)
EXTENDS Integers, Sequences, FiniteSets, TLC

(***************************************************************************)
(* Rasters.  A raster is [w, h, px]: px is the row-major sequence of the   *)
(* w*h pixels, each pixel <<r, g, b, a>> with channels in 0..255.          *)
(***************************************************************************)

Min(a, b) == IF a < b THEN a ELSE b

Max(a, b) == IF a > b THEN a ELSE b

\* Math.max(0, Math.min(255, v))
Clamp255(v) == Max(0, Min(255, v))

\* Storing the quotient n/d (n >= 0, d > 0) into a Uint8ClampedArray:
\* rounded to the nearest integer, ties to the even one.
RoundDiv(n, d) ==
    LET q == n \div d
        r == n % d
    IN  IF 2 * r < d THEN q
        ELSE IF 2 * r > d THEN q + 1
        ELSE IF q % 2 = 0 THEN q ELSE q + 1

\* Storing Math.min(255, Math.hypot(sx, sy)) into a Uint8ClampedArray, given
\* n = sx*sx + sy*sy: the integer nearest to the square root, at most 255.
HypotByte(n) ==
    IF n > 255 * 255 THEN 255
    ELSE CHOOSE m \in 0..255 : (m = 0 \/ m * m - m < n) /\ n <= m * m + m

Transparent == <<0, 0, 0, 0>>

\* A cleared canvas (clearRect, or the reset that assigning width does), and
\* the fresh buffer createImageData returns: every pixel transparent black.
Blank(w, h) == [w |-> w, h |-> h, px |-> [i \in 1..(w * h) |-> Transparent]]

\* The pixel at column x, row y (both from 0).
At(c, x, y) == c.px[y * c.w + x + 1]

\* drawImage(src, 0, 0, dw, dh) onto a cleared canvas with
\* imageSmoothingEnabled = false: nearest-neighbour sampling at pixel centres.
Nearest(src, dw, dh) ==
    [w |-> dw, h |-> dh,
     px |-> [i \in 1..(dw * dh) |->
               LET x  == (i - 1) % dw
                   y  == (i - 1) \div dw
                   sx == ((2 * x + 1) * src.w) \div (2 * dw)
                   sy == ((2 * y + 1) * src.h) \div (2 * dh)
               IN  At(src, sx, sy)]]

\* drawImage(src, 0, 0, dw, dh) onto a cleared canvas with smoothing on.  At
\* the source's own size this is a copy.  At another size the browser
\* interpolates; the sample positions are those of Nearest, the exact blend
\* is the browser's and no property below reads the blended values.
Smooth(src, dw, dh) ==
    IF src.w = dw /\ src.h = dh THEN src ELSE Nearest(src, dw, dh)

(***************************************************************************)
(* Filter values f and the CSS filter chain built from them.               *)
(***************************************************************************)

DefaultF ==
    [brightness |-> 100, contrast |-> 100, saturation |-> 100, hue |-> 0,
     grayscale |-> 0, sepia |-> 0, invert |-> 0, blur |-> 0, pixelate |-> 1]

\* isNoOp of drawFull
IsNoOp(f) ==
    /\ f.brightness = 100 /\ f.contrast = 100 /\ f.saturation = 100
    /\ f.hue = 0 /\ f.grayscale = 0 /\ f.sepia = 0 /\ f.invert = 0
    /\ f.blur = 0

\* One channel with the invert amount read the wrong way round
ToneChannelInvertSwapped(c, f) ==
    LET br == Clamp255(RoundDiv(c * f.brightness, 100))
    IN  Clamp255(RoundDiv(br * f.invert + (255 - br) * (100 - f.invert), 100))

\* One channel through brightness(b%) then invert(i%), rounded to 8 bits.
ToneChannel(c, f) ==
    LET br == Clamp255(RoundDiv(c * f.brightness, 100))
    IN  Clamp255(RoundDiv(br * (100 - f.invert) + (255 - br) * f.invert, 100))

\* A draw through ctx.filter = cssFilter().  The chain is brightness,
\* contrast, saturate, hue-rotate, grayscale, sepia, invert, blur; the model
\* varies brightness and invert, and the other six stay at the values where
\* CSS defines them as the identity.  Alpha passes through.
CssFilter(c, f) ==
    [c EXCEPT !.px = [i \in 1..(c.w * c.h) |->
        <<ToneChannel(c.px[i][1], f), ToneChannel(c.px[i][2], f),
          ToneChannel(c.px[i][3], f), c.px[i][4]>>]]

(***************************************************************************)
(* Effects: 3x3 kernels and Sobel.                                         *)
(***************************************************************************)

KernelNames == {"None", "Sharpen", "Blur", "Emboss"}

KernelFromName(name) ==
    CASE name = "Sharpen" -> <<0, -1, 0, -1, 5, -1, 0, -1, 0>>
      [] name = "Blur"    -> <<1, 1, 1, 1, 1, 1, 1, 1, 1>>
      [] name = "Emboss"  -> <<-2, -1, 0, -1, 1, 1, 0, 1, 2>>
      [] OTHER            -> <<0, 0, 0, 0, 1, 0, 0, 0, 0>>

\* The 3x3 neighbourhood in the order of the ky, kx loops: p = 1..9.
NbX(p) == ((p - 1) % 3) - 1

NbY(p) == ((p - 1) \div 3) - 1

Interior(c, x, y) == x >= 1 /\ x < c.w - 1 /\ y >= 1 /\ y < c.h - 1

RECURSIVE SumTo(_, _)
\* g[1] + ... + g[n]
SumTo(g, n) == IF n = 0 THEN 0 ELSE g[n] + SumTo(g, n - 1)

\* One channel of one interior pixel: the weighted sum with weights
\* kernel[p]/sum, clamped, stored into the ImageData byte.
KernelChannel(c, kernel, sum, x, y, ch) ==
    LET acc == SumTo([p \in 1..9 |->
                        kernel[p] * At(c, x + NbX(p), y + NbY(p))[ch]], 9)
        n   == IF sum < 0 THEN -acc ELSE acc
        d   == IF sum < 0 THEN -sum ELSE sum
    IN  IF n <= 0 THEN 0
        ELSE IF n >= 255 * d THEN 255
        ELSE RoundDiv(n, d)

\* applyKernel(canvas, kernel): dst starts as createImageData (transparent
\* black), the loops write the interior pixels only, putImageData replaces
\* the whole canvas by dst.
ApplyKernel(c, kernel) ==
    LET s   == SumTo(kernel, 9)
        sum == IF s = 0 THEN 1 ELSE s
    IN  [c EXCEPT !.px = [i \in 1..(c.w * c.h) |->
            LET x == (i - 1) % c.w
                y == (i - 1) \div c.w
            IN  IF Interior(c, x, y)
                THEN <<KernelChannel(c, kernel, sum, x, y, 1),
                       KernelChannel(c, kernel, sum, x, y, 2),
                       KernelChannel(c, kernel, sum, x, y, 3), 255>>
                ELSE Transparent]]

\* gray[p] = 0.299*r + 0.587*g + 0.114*b, stored into a Uint8ClampedArray
Luma(p) == RoundDiv(299 * p[1] + 587 * p[2] + 114 * p[3], 1000)

SobelGx == <<-1, 0, 1, -2, 0, 2, -1, 0, 1>>

SobelGy == <<-1, -2, -1, 0, 0, 0, 1, 2, 1>>

\* applySobel(canvas): out starts as createImageData, the loops write the
\* interior pixels only, putImageData replaces the whole canvas by out.
ApplySobel(c) ==
    LET gray == [i \in 1..(c.w * c.h) |-> Luma(c.px[i])]
        G(x, y) == gray[y * c.w + x + 1]
    IN  [c EXCEPT !.px = [i \in 1..(c.w * c.h) |->
            LET x == (i - 1) % c.w
                y == (i - 1) \div c.w
            IN  IF Interior(c, x, y)
                THEN LET sx  == SumTo([p \in 1..9 |->
                                   SobelGx[p] * G(x + NbX(p), y + NbY(p))], 9)
                         sy  == SumTo([p \in 1..9 |->
                                   SobelGy[p] * G(x + NbX(p), y + NbY(p))], 9)
                         mag == HypotByte(sx * sx + sy * sy)
                     IN  <<mag, mag, mag, 255>>
                ELSE Transparent]]

(***************************************************************************)
(* drawFull.  The result is [cv, log]: cv is the full-resolution canvas    *)
(* after the call, log lists the stages the call ran, in the order it ran  *)
(* them ("copy", "pixelate", "tone", "sobel", "kernel").                   *)
(***************************************************************************)

\* The pixelate branch: downscale into tSmall without smoothing, scale back
\* up without smoothing, then the CSS filter through tLarge unless isNoOp.
DrawPixelated(img, w, h, f) ==
    LET factor == Max(1, f.pixelate)
        tw     == Max(1, w \div factor)
        th     == Max(1, h \div factor)
        tSmall == Nearest(img, tw, th)
        up     == Nearest(tSmall, w, h)
    IN  IF ~IsNoOp(f)
        THEN [cv |-> CssFilter(up, f), log |-> <<"pixelate", "tone">>]
        ELSE [cv |-> up, log |-> <<"pixelate">>]

\* The branch without pixelation: the filter is applied during the draw.
DrawFiltered(img, w, h, f) ==
    [cv |-> CssFilter(Smooth(img, w, h), f), log |-> <<"tone">>]

\* The optional effects with the kernel run before Sobel
DrawEffectsKernelFirst(d, edgeDetect, kernelName) ==
    LET s == IF kernelName # "None"
             THEN [cv |-> ApplyKernel(d.cv, KernelFromName(kernelName)),
                   log |-> Append(d.log, "kernel")]
             ELSE d
    IN  IF edgeDetect
        THEN [cv |-> ApplySobel(s.cv), log |-> Append(s.log, "sobel")]
        ELSE s

\* "Optional effects run after base filters."
DrawEffects(d, edgeDetect, kernelName) ==
    LET s == IF edgeDetect
             THEN [cv |-> ApplySobel(d.cv), log |-> Append(d.log, "sobel")]
             ELSE d
    IN  IF kernelName # "None"
        THEN [cv |-> ApplyKernel(s.cv, KernelFromName(kernelName)),
              log |-> Append(s.log, "kernel")]
        ELSE s

\* drawFull without the showOriginal branch
DrawFullNoBypass(img, w, h, f, edgeDetect, kernelName, showOriginal) ==
    DrawEffects(IF f.pixelate > 1 THEN DrawPixelated(img, w, h, f)
                                  ELSE DrawFiltered(img, w, h, f),
                edgeDetect, kernelName)

\* drawFull with img non-null onto a canvas of w x h pixels.
DrawFull(img, w, h, f, edgeDetect, kernelName, showOriginal) ==
    IF showOriginal
    THEN [cv |-> Smooth(img, w, h), log |-> <<"copy">>]
    ELSE DrawEffects(IF f.pixelate > 1 THEN DrawPixelated(img, w, h, f)
                                       ELSE DrawFiltered(img, w, h, f),
                     edgeDetect, kernelName)

(***************************************************************************)
(* The pictures the user can load (decoded files), by name.                *)
(***************************************************************************)

PicA ==
    [w |-> 4, h |-> 4,
     px |-> << <<255, 0, 0, 255>>,  <<255, 0, 0, 255>>,   <<0, 0, 255, 255>>,     <<0, 0, 255, 255>>,
               <<255, 0, 0, 255>>,  <<200, 100, 0, 255>>, <<0, 100, 200, 255>>,   <<0, 0, 255, 255>>,
               <<0, 255, 0, 255>>,  <<0, 200, 100, 255>>, <<100, 100, 100, 128>>, <<40, 40, 40, 255>>,
               <<0, 255, 0, 255>>,  <<0, 255, 0, 255>>,   <<40, 40, 40, 255>>,    <<250, 250, 250, 255>> >>]

PicB ==
    [w |-> 2, h |-> 2,
     px |-> << <<10, 20, 30, 255>>, <<200, 100, 50, 255>>,
               <<0, 0, 0, 0>>,      <<255, 255, 255, 255>> >>]

PicC ==
    [w |-> 3, h |-> 3,
     px |-> << <<0, 0, 0, 255>>,     <<60, 60, 60, 255>>,  <<120, 120, 120, 255>>,
               <<30, 30, 30, 255>>,  <<90, 40, 200, 200>>, <<150, 150, 150, 255>>,
               <<60, 60, 60, 255>>,  <<120, 120, 120, 255>>, <<180, 180, 180, 255>> >>]

PicD ==
    [w |-> 3, h |-> 2,
     px |-> << <<5, 5, 5, 255>>,    <<100, 0, 0, 255>>, <<0, 100, 0, 64>>,
               <<0, 0, 100, 255>>,  <<9, 9, 9, 255>>,   <<77, 88, 99, 255>> >>]

Pic(name) ==
    CASE name = "A" -> PicA
      [] name = "B" -> PicB
      [] name = "C" -> PicC
      [] name = "D" -> PicD

(***************************************************************************)
(* State.                                                                  *)
(***************************************************************************)

VARIABLES
    img,           \* useState img: [id, pic], NoImg while null
    f,             \* useState f: the filter values
    edgeDetect,    \* useState edgeDetect
    kernelName,    \* useState kernelName
    showOriginal,  \* useState showOriginal
    history,       \* useState history: sequence of entries, entry i+1 is history[i]
    hIndex,        \* useState hIndex
    full,          \* fullRef.current: the full-resolution canvas, NoCanvas while null
    loads,         \* images created by the load effect whose onload has not run
    restores,      \* img2 of restoreFromDataURL whose onload has not run, in start order
    effectPending, \* the redraw effect is scheduled and has not run
    loadCount,     \* instrumentation: files chosen so far
    pushCount,     \* instrumentation: entries pushed so far
    undoCalls,     \* instrumentation: calls of undo so far
    redoCalls,     \* instrumentation: calls of redo so far
    editCount,     \* instrumentation: control changes so far
    lastWrite,     \* instrumentation: who wrote the full canvas last
    dlCalls,       \* instrumentation: calls of download so far
    dlOutcome,     \* how the last call of download ended
    exported,      \* the files download handed to the browser, in order
    pxIn,          \* pipeline harness: the arguments of a call
    pxOut          \* pipeline harness: the callee and what it returned

appVars ==
    <<img, f, edgeDetect, kernelName, showOriginal, history, hIndex, full,
      loads, restores, effectPending, loadCount, pushCount, undoCalls,
      redoCalls, editCount, lastWrite, dlCalls, dlOutcome, exported>>

dlVars == <<dlCalls, dlOutcome, exported>>

pxVars == <<pxIn, pxOut>>

vars == <<appVars, pxVars>>

NoImg == [id |-> 0, pic |-> "none"]

NoCanvas == [w |-> 0, h |-> 0, px |-> <<>>]

\* history.slice(-20) keeps at most this many entries
MaxHistory == 20

\* Math.min(i + 1, 19)
MaxIndex == 19

(***************************************************************************)
(* History.  An entry is [url, seq, gen]: url is the canvas content that   *)
(* toDataURL captured; seq (the ordinal of the push) and gen (the id of    *)
(* the image the push belongs to) are instrumentation that tells entries   *)
(* with equal content apart.                                               *)
(***************************************************************************)

\* h.slice(0, n) for n >= 0
SliceTo(h, n) == SubSeq(h, 1, Min(n, Len(h)))

\* h.slice(-n)
SliceLast(h, n) == SubSeq(h, Max(1, Len(h) - n + 1), Len(h))

\* pushHistory keeping the first 20 entries on overflow: slice(0, 20)
PushedHistoryKeepOldest(h, k, e) ==
    SliceTo(SliceTo(h, k + 1) \o <<e>>, MaxHistory)

\* The updater pushHistory hands to setHistory; k is the hIndex its closure
\* captured.
PushedHistory(h, k, e) == SliceLast(SliceTo(h, k + 1) \o <<e>>, MaxHistory)

\* The updater pushHistory hands to setHIndex.
PushedIndex(i) == Min(i + 1, MaxIndex)

\* history[i] of the code (i from 0) is defined
Defined(h, i) == i >= 0 /\ i < Len(h)

\* restoreFromDataURL(history[i]): img2.src = url starts a load; with
\* history[i] undefined nothing loads and img2.onload never runs.
Restoring(rs, h, i) == IF Defined(h, i) THEN Append(rs, h[i + 1]) ELSE rs

(***************************************************************************)
(* Init: the state after the first render of App.                          *)
(***************************************************************************)

PxIdle == [op |-> "none", cv |-> NoCanvas, log |-> <<>>]

PxNoArgs ==
    [pic |-> "A", w |-> 0, h |-> 0, f |-> DefaultF, edgeDetect |-> FALSE,
     kernelName |-> "None", showOriginal |-> FALSE]

InitApp ==
    /\ img = NoImg
    /\ f = DefaultF
    /\ edgeDetect = FALSE
    /\ kernelName = "None"
    /\ showOriginal = FALSE
    /\ history = <<>>
    /\ hIndex = -1
    /\ full = NoCanvas
    /\ loads = {}
    /\ restores = <<>>
    /\ effectPending = FALSE
    /\ loadCount = 0
    /\ pushCount = 0
    /\ undoCalls = 0
    /\ redoCalls = 0
    /\ editCount = 0
    /\ lastWrite = "none"
    /\ dlCalls = 0
    /\ dlOutcome = "none"
    /\ exported = <<>>

Init == InitApp /\ pxIn = PxNoArgs /\ pxOut = PxIdle

(***************************************************************************)
(* File input and image load.                                              *)
(***************************************************************************)

\* onFile / onDrop set imgUrl; the load effect of the render that follows
\* creates the Image.  Its onload closes over that render's drawFull and
\* pushHistory, that is over img, f, edgeDetect, kernelName, showOriginal
\* and hIndex as they are now.
ChooseFile(pic) ==
    /\ ~effectPending
    /\ loads' = loads \cup
          {[id |-> loadCount + 1, pic |-> pic, cImg |-> img, cF |-> f,
            cEdgeDetect |-> edgeDetect, cKernelName |-> kernelName,
            cShowOriginal |-> showOriginal, cHIndex |-> hIndex]}
    /\ loadCount' = loadCount + 1
    /\ UNCHANGED <<img, f, edgeDetect, kernelName, showOriginal, history,
                   hIndex, full, restores, effectPending, pushCount,
                   undoCalls, redoCalls, editCount, lastWrite, pxVars,
                   dlVars>>

\* The canvas after the drawFull() call of image.onload: the canvas has just
\* been resized to the new image (which clears it), and drawFull reads the
\* img of its closure: it returns at once when that is null.
OnloadDraw(l) ==
    LET w == Pic(l.pic).w
        h == Pic(l.pic).h
    IN  IF l.cImg = NoImg
        THEN Blank(w, h)
        ELSE DrawFull(Pic(l.cImg.pic), w, h, l.cF, l.cEdgeDetect,
                      l.cKernelName, l.cShowOriginal).cv

\* image.onload: setImg, resize the canvas, drawFull(), pushHistory(),
\* syncPreview().  setImg schedules the redraw effect.
LoadComplete(l) ==
    /\ l \in loads
    /\ img' = [id |-> l.id, pic |-> l.pic]
    /\ full' = OnloadDraw(l)
    /\ history' = PushedHistory(history, l.cHIndex,
                     [url |-> full', seq |-> pushCount + 1, gen |-> l.id])
    /\ hIndex' = PushedIndex(hIndex)
    /\ loads' = loads \ {l}
    /\ effectPending' = TRUE
    /\ pushCount' = pushCount + 1
    /\ lastWrite' = IF l.cImg = NoImg THEN "clear" ELSE "draw"
    /\ UNCHANGED <<f, edgeDetect, kernelName, showOriginal, restores,
                   loadCount, undoCalls, redoCalls, editCount, pxVars,
                   dlVars>>

\* The file does not decode: there is no onerror handler, nothing runs.
LoadFail(l) ==
    /\ l \in loads
    /\ loads' = loads \ {l}
    /\ UNCHANGED <<img, f, edgeDetect, kernelName, showOriginal, history,
                   hIndex, full, restores, effectPending, loadCount,
                   pushCount, undoCalls, redoCalls, editCount, lastWrite, pxVars,
                   dlVars>>

(***************************************************************************)
(* Redraw on changes.                                                      *)
(***************************************************************************)

\* useEffect(..., [img, f, edgeDetect, kernelName, showOriginal]):
\* if (!img) return; drawFull(); syncPreview();
RedrawEffect ==
    /\ effectPending
    /\ effectPending' = FALSE
    /\ IF img = NoImg \/ full = NoCanvas
       THEN UNCHANGED <<full, lastWrite>>
       ELSE /\ full' = DrawFull(Pic(img.pic), full.w, full.h, f, edgeDetect,
                                kernelName, showOriginal).cv
            /\ lastWrite' = "draw"
    /\ UNCHANGED <<img, f, edgeDetect, kernelName, showOriginal, history,
                   hIndex, loads, restores, loadCount, pushCount, undoCalls, redoCalls,
                   editCount, pxVars,
                   dlVars>>

\* setNum(key)(val): a slider moved
SetNum(key, val) ==
    /\ ~effectPending
    /\ f' = [f EXCEPT ![key] = val]
    /\ effectPending' = TRUE
    /\ editCount' = editCount + 1
    /\ UNCHANGED <<img, edgeDetect, kernelName, showOriginal, history, hIndex,
                   full, loads, restores, loadCount, pushCount, undoCalls, redoCalls,
                   lastWrite, pxVars,
                   dlVars>>

\* resetFilters (the Reset button, the Original preset)
ResetFilters ==
    /\ ~effectPending
    /\ f' = DefaultF
    /\ effectPending' = TRUE
    /\ editCount' = editCount + 1
    /\ UNCHANGED <<img, edgeDetect, kernelName, showOriginal, history, hIndex,
                   full, loads, restores, loadCount, pushCount, undoCalls, redoCalls,
                   lastWrite, pxVars,
                   dlVars>>

\* setEdgeDetect(e.target.checked)
SetEdgeDetect(b) ==
    /\ ~effectPending
    /\ b # edgeDetect
    /\ edgeDetect' = b
    /\ effectPending' = TRUE
    /\ editCount' = editCount + 1
    /\ UNCHANGED <<img, f, kernelName, showOriginal, history, hIndex, full,
                   loads, restores, loadCount, pushCount, undoCalls, redoCalls, lastWrite,
                   pxVars,
                   dlVars>>

\* setKernelName with kernelName missing from the redraw effect's dependencies
SetKernelNameNoRedraw(n) ==
    /\ ~effectPending
    /\ n # kernelName
    /\ kernelName' = n
    /\ editCount' = editCount + 1
    /\ UNCHANGED <<img, f, edgeDetect, showOriginal, history, hIndex, full,
                   loads, restores, effectPending, loadCount, pushCount,
                   undoCalls, redoCalls, lastWrite, pxVars,
                   dlVars>>

\* setKernelName(e.target.value)
SetKernelName(n) ==
    /\ ~effectPending
    /\ n # kernelName
    /\ kernelName' = n
    /\ effectPending' = TRUE
    /\ editCount' = editCount + 1
    /\ UNCHANGED <<img, f, edgeDetect, showOriginal, history, hIndex, full,
                   loads, restores, loadCount, pushCount, undoCalls, redoCalls, lastWrite,
                   pxVars,
                   dlVars>>

\* setShowOriginal: the checkbox, Space down, Space up
SetShowOriginal(b) ==
    /\ ~effectPending
    /\ b # showOriginal
    /\ showOriginal' = b
    /\ effectPending' = TRUE
    /\ editCount' = editCount + 1
    /\ UNCHANGED <<img, f, edgeDetect, kernelName, history, hIndex, full,
                   loads, restores, loadCount, pushCount, undoCalls, redoCalls, lastWrite,
                   pxVars,
                   dlVars>>

(***************************************************************************)
(* History: Snapshot, undo, redo, restore.                                 *)
(***************************************************************************)

\* The Snapshot button: pushHistory() of the current render, whose closure
\* holds the current hIndex.  if (!full) return.
Snapshot ==
    /\ ~effectPending
    /\ IF full = NoCanvas
       THEN UNCHANGED <<history, hIndex, pushCount>>
       ELSE /\ history' = PushedHistory(history, hIndex,
                            [url |-> full, seq |-> pushCount + 1,
                             gen |-> img.id])
            /\ hIndex' = PushedIndex(hIndex)
            /\ pushCount' = pushCount + 1
    /\ UNCHANGED <<img, f, edgeDetect, kernelName, showOriginal, full, loads,
                   restores, effectPending, loadCount, undoCalls, redoCalls, editCount,
                   lastWrite, pxVars,
                   dlVars>>

\* undo guarded by hIndex >= 0
CanUndoFromFirst(h, i) == i >= 0

\* if (hIndex > 0)
CanUndo(h, i) == i > 0

\* if (hIndex < history.length - 1)
CanRedo(h, i) == i < Len(h) - 1

\* undo
Undo ==
    /\ ~effectPending
    /\ IF CanUndo(history, hIndex)
       THEN /\ restores' = Restoring(restores, history, hIndex - 1)
            /\ hIndex' = hIndex - 1
       ELSE UNCHANGED <<restores, hIndex>>
    /\ undoCalls' = undoCalls + 1
    /\ UNCHANGED <<img, f, edgeDetect, kernelName, showOriginal, history,
                   full, loads, effectPending, loadCount, pushCount,
                   redoCalls, editCount, lastWrite, pxVars,
                   dlVars>>

\* redo
Redo ==
    /\ ~effectPending
    /\ IF CanRedo(history, hIndex)
       THEN /\ restores' = Restoring(restores, history, hIndex + 1)
            /\ hIndex' = hIndex + 1
       ELSE UNCHANGED <<restores, hIndex>>
    /\ redoCalls' = redoCalls + 1
    /\ UNCHANGED <<img, f, edgeDetect, kernelName, showOriginal, history,
                   full, loads, effectPending, loadCount, pushCount,
                   undoCalls, editCount, lastWrite, pxVars,
                   dlVars>>

\* The sequence s without its k-th element
Without(s, k) == SubSeq(s, 1, k - 1) \o SubSeq(s, k + 1, Len(s))

\* img2.onload of restoreFromDataURL: clearRect, then drawImage(img2, 0, 0,
\* full.width, full.height).  The loads of several img2 complete in any
\* order.
RestoreComplete(k) ==
    /\ k \in 1..Len(restores)
    /\ full' = Smooth(restores[k].url, full.w, full.h)
    /\ restores' = Without(restores, k)
    /\ lastWrite' = "restore"
    /\ UNCHANGED <<img, f, edgeDetect, kernelName, showOriginal, history,
                   hIndex, loads, effectPending, loadCount, pushCount,
                   undoCalls, redoCalls, editCount, pxVars,
                   dlVars>>

(***************************************************************************)
(* Export.                                                                 *)
(***************************************************************************)

\* download: full.toDataURL("image/png") on fullRef.current.  While the ref
\* is null the property access throws a TypeError out of the click handler,
\* before a.click(); otherwise the canvas is handed over as a PNG.
Download ==
    /\ dlCalls' = dlCalls + 1
    /\ IF full = NoCanvas
       THEN dlOutcome' = "TypeError" /\ UNCHANGED exported
       ELSE dlOutcome' = "exported" /\ exported' = Append(exported, full)
    /\ UNCHANGED <<img, f, edgeDetect, kernelName, showOriginal, history,
                   hIndex, full, loads, restores, effectPending, loadCount,
                   pushCount, undoCalls, redoCalls, editCount, lastWrite,
                   pxVars>>

(***************************************************************************)
(* The application: every handler, under the bounds.                       *)
(***************************************************************************)

\* files the user chooses
MaxLoads == 2

\* entries pushed in all (image loads and Snapshot)
MaxPushes == 3

\* calls of undo
MaxUndo == 1

\* calls of redo
MaxRedo == 1

\* control changes
MaxEdits == 1

\* the pictures the user chooses among
PicNames == {"B", "C"}

\* the values the Brightness and Pixelate sliders are moved to
BrightnessVals == {100, 200}

PixelateVals == {1, 2}

Edit ==
    \/ \E v \in BrightnessVals : SetNum("brightness", v)
    \/ \E v \in PixelateVals : SetNum("pixelate", v)
    \/ ResetFilters
    \/ \E b \in BOOLEAN : SetEdgeDetect(b)
    \/ \E n \in KernelNames : SetKernelName(n)
    \/ \E b \in BOOLEAN : SetShowOriginal(b)

Next ==
    \/ loadCount < MaxLoads /\ \E p \in PicNames : ChooseFile(p)
    \/ \E l \in loads : LoadComplete(l)
    \/ \E l \in loads : LoadFail(l)
    \/ RedrawEffect
    \/ editCount < MaxEdits /\ Edit
    \/ pushCount < MaxPushes /\ Snapshot
    \/ undoCalls < MaxUndo /\ Undo
    \/ redoCalls < MaxRedo /\ Redo
    \/ \E k \in 1..Len(restores) : RestoreComplete(k)

Spec == Init /\ [][Next]_vars

(***************************************************************************)
(* Exporting: loads, control changes and calls of download.                *)
(***************************************************************************)

\* files the user chooses
ExportLoads == 1

\* control changes
ExportEdits == 1

\* calls of download
ExportCalls == 2

NextExport ==
    \/ loadCount < ExportLoads /\ \E p \in PicNames : ChooseFile(p)
    \/ \E l \in loads : LoadComplete(l)
    \/ \E l \in loads : LoadFail(l)
    \/ RedrawEffect
    \/ editCount < ExportEdits /\ Edit
    \/ dlCalls < ExportCalls /\ Download

SpecExport == Init /\ [][NextExport]_vars

(***************************************************************************)
(* Filling the history: one session of loads, control changes and          *)
(* snapshots, long enough for the history to overflow.                     *)
(***************************************************************************)

\* files the user chooses
PushLoads == 1

\* entries pushed in all
PushSnaps == 25

\* control changes
PushEdits == 1

\* the picture the user chooses
PushPics == {"C"}

NextPush ==
    \/ loadCount < PushLoads /\ \E p \in PushPics : ChooseFile(p)
    \/ \E l \in loads : LoadComplete(l)
    \/ \E l \in loads : LoadFail(l)
    \/ RedrawEffect
    \/ editCount < PushEdits /\ \E b \in BOOLEAN : SetEdgeDetect(b)
    \/ pushCount < PushSnaps /\ Snapshot

SpecPush == Init /\ [][NextPush]_vars

(***************************************************************************)
(* Navigating the history: loads, snapshots, undo, redo and the restores   *)
(* they start, with the controls left alone.                               *)
(***************************************************************************)

\* files the user chooses
NavLoads == 1

\* entries pushed in all
NavPushes == 3

\* calls of undo
NavUndo == 2

\* calls of redo
NavRedo == 2

NextNav ==
    \/ loadCount < NavLoads /\ \E p \in PicNames : ChooseFile(p)
    \/ \E l \in loads : LoadComplete(l)
    \/ \E l \in loads : LoadFail(l)
    \/ RedrawEffect
    \/ pushCount < NavPushes /\ Snapshot
    \/ undoCalls < NavUndo /\ Undo
    \/ redoCalls < NavRedo /\ Redo
    \/ \E k \in 1..Len(restores) : RestoreComplete(k)

SpecNav == Init /\ [][NextNav]_vars

(***************************************************************************)
(* The round trip: a fresh session pushes snapshots S1 (the image load),   *)
(* S2, ... with control changes in between, then calls undo as many times  *)
(* as there are snapshots, then redo as many times.                        *)
(***************************************************************************)

\* snapshots pushed, and calls of undo and of redo
RoundLen == 3

\* files the user chooses
RoundLoads == 1

\* control changes
RoundEdits == 1

NextRound ==
    \/ loadCount < RoundLoads /\ \E p \in PicNames : ChooseFile(p)
    \/ \E l \in loads : LoadComplete(l)
    \/ \E l \in loads : LoadFail(l)
    \/ RedrawEffect
    \/ undoCalls = 0 /\ editCount < RoundEdits /\ Edit
    \/ undoCalls = 0 /\ pushCount < RoundLen /\ Snapshot
    \/ pushCount = RoundLen /\ redoCalls = 0 /\ undoCalls < RoundLen /\ Undo
    \/ undoCalls = RoundLen /\ redoCalls < RoundLen /\ Redo
    \/ \E k \in 1..Len(restores) : RestoreComplete(k)

SpecRound == Init /\ [][NextRound]_vars

(***************************************************************************)
(* Editing: loads, control changes and the redraws they schedule, with     *)
(* snapshots, undo, redo and restores in between.                          *)
(***************************************************************************)

\* files the user chooses
EditLoads == 1

\* control changes
EditEdits == 1

\* entries pushed in all
EditPushes == 2

\* calls of undo and redo together
EditNav == 1

NextEdit ==
    \/ loadCount < EditLoads /\ \E p \in PicNames : ChooseFile(p)
    \/ \E l \in loads : LoadComplete(l)
    \/ \E l \in loads : LoadFail(l)
    \/ RedrawEffect
    \/ editCount < EditEdits /\ Edit
    \/ pushCount < EditPushes /\ Snapshot
    \/ undoCalls + redoCalls < EditNav /\ Undo
    \/ undoCalls + redoCalls < EditNav /\ Redo
    \/ \E k \in 1..Len(restores) : RestoreComplete(k)

SpecEdit == Init /\ [][NextEdit]_vars

(***************************************************************************)
(* The pipeline on its own: drawFull, applyKernel and applySobel called    *)
(* once on arguments drawn from the sets below.  pxIn holds the picture,   *)
(* the size of the canvas and the controls; applyKernel and applySobel     *)
(* are handed a canvas that holds the picture at its own size.             *)
(***************************************************************************)

PxPics == {"A", "B", "C", "D"}

PxFs ==
    {[DefaultF EXCEPT !.brightness = b, !.invert = i, !.pixelate = p] :
        b \in {100, 200}, i \in {0, 100}, p \in {1, 2, 5}}

\* The canvas is sized for picture c (image.onload sizes it for the picture
\* it loaded, while the drawFull of its closure draws the one before).
PxInputs ==
    {[pic |-> p, w |-> Pic(c).w, h |-> Pic(c).h, f |-> ff, edgeDetect |-> e,
      kernelName |-> k, showOriginal |-> o] :
        p \in PxPics, c \in PxPics, ff \in PxFs, e \in BOOLEAN,
        k \in KernelNames, o \in BOOLEAN}

InitPix == InitApp /\ pxIn \in PxInputs /\ pxOut = PxIdle

PxDrawFull ==
    /\ pxOut.op = "none"
    /\ pxOut' =
          LET d == DrawFull(Pic(pxIn.pic), pxIn.w, pxIn.h, pxIn.f,
                            pxIn.edgeDetect, pxIn.kernelName,
                            pxIn.showOriginal)
          IN  [op |-> "drawFull", cv |-> d.cv, log |-> d.log]
    /\ UNCHANGED <<pxIn, appVars>>

PxApplyKernel ==
    /\ pxOut.op = "none"
    /\ pxOut' = [op |-> "applyKernel",
                 cv |-> ApplyKernel(Pic(pxIn.pic),
                                    KernelFromName(pxIn.kernelName)),
                 log |-> <<"kernel">>]
    /\ UNCHANGED <<pxIn, appVars>>

PxApplySobel ==
    /\ pxOut.op = "none"
    /\ pxOut' = [op |-> "applySobel", cv |-> ApplySobel(Pic(pxIn.pic)),
                 log |-> <<"sobel">>]
    /\ UNCHANGED <<pxIn, appVars>>

NextPix == PxDrawFull \/ PxApplyKernel \/ PxApplySobel

SpecPix == InitPix /\ [][NextPix]_vars

(***************************************************************************)
(* Properties.                                                             *)
(***************************************************************************)

\* C1: in every reachable state the history cursor is within the history:
\* -1 <= hIndex <= history.length - 1.
C1_CursorInRange == -1 <= hIndex /\ hIndex <= Len(history) - 1

\* The ordinals of the pushes whose entries the history holds, in order.
Seqs(h) == [i \in 1..Len(h) |-> h[i].seq]

\* C2: the history never holds more than 20 entries, and it evicts the
\* oldest first: after n pushes in a row from the empty history, each issued
\* by the render that followed the previous one (one image load, then
\* Snapshot, no undo in between), it holds the last min(n, 20) of them in
\* their order, and the cursor is on the newest.  With n = 25: pushes 6..25,
\* cursor 19.
C2_BoundedOldestFirst ==
    /\ Len(history) <= 20
    /\ (loadCount <= 1 /\ undoCalls = 0) =>
          /\ Len(history) = Min(pushCount, 20)
          /\ \A i \in 1..Len(history) :
                history[i].seq = pushCount - Len(history) + i
          /\ hIndex = Len(history) - 1

\* 25 pushes in a row have been made: 6..25 are left, the cursor is at 19.
C2_Witness ==
    /\ pushCount = 25
    /\ undoCalls = 0
    /\ Len(history) = 20
    /\ history[1].seq = 6
    /\ history[20].seq = 25
    /\ hIndex = 19

\* The step is a push made while the cursor is before the last entry.
PushBeforeEnd == pushCount' = pushCount + 1 /\ hIndex < Len(history) - 1

\* The push has cut the history after the cursor, appended the new entry
\* there and put the cursor on it, so that redo has nothing to do.
RedoBranchDropped ==
    /\ Len(history') = hIndex + 2
    /\ SubSeq(history', 1, hIndex + 1) = SubSeq(history, 1, hIndex + 1)
    /\ history'[hIndex + 2].seq = pushCount'
    /\ hIndex' = hIndex + 1
    /\ ~CanRedo(history', hIndex')

\* C3: whenever the cursor is not on the last entry, a push removes every
\* entry after the cursor, appends the new snapshot right after the cursor
\* entry and moves the cursor onto it, so that a redo issued next changes
\* nothing.
C3_PushDropsRedoBranch == [][PushBeforeEnd => RedoBranchDropped]_vars

\* Nothing is scheduled or in flight.
Quiescent == ~effectPending /\ loads = {} /\ restores = <<>>

\* The round trip is over: all snapshots pushed, all undo calls and then all
\* redo calls made, every restore completed.
RoundTripDone ==
    /\ pushCount = RoundLen
    /\ undoCalls = RoundLen
    /\ redoCalls = RoundLen
    /\ Quiescent

\* C4: in a fresh session, after snapshots S1, S2, S3, three undo calls
\* followed by three redo calls leave the history as it was, the cursor on
\* S3's entry and the working raster equal to S3.
C4_RoundTrip ==
    RoundTripDone =>
        /\ Seqs(history) = [i \in 1..RoundLen |-> i]
        /\ hIndex = RoundLen - 1
        /\ full = history[RoundLen].url

\* The step is a call of undo at the oldest entry or on an empty history, or
\* a call of redo at the newest entry.
BoundaryCall ==
    \/ undoCalls' # undoCalls /\ hIndex <= 0
    \/ redoCalls' # redoCalls /\ hIndex = Len(history) - 1

\* C5: undo with the cursor at the oldest entry or with an empty history
\* (cursor <= 0) and redo with the cursor at the newest entry are no-ops:
\* cursor, history and working raster stay as they are and no restore is
\* started.
C5_BoundaryNoOp ==
    [][BoundaryCall => UNCHANGED <<hIndex, history, full, restores>>]_vars

\* One entry was ever pushed, so the cursor has been on the only entry
\* since, and undo and redo have both been called there.
C5_Witness ==
    /\ pushCount = 1
    /\ Len(history) = 1
    /\ hIndex = 0
    /\ undoCalls >= 1
    /\ redoCalls >= 1
    /\ restores = <<>>
    /\ lastWrite # "restore"

\* C6: loading a new image clears the history: with an image loaded, the
\* history holds no snapshot that was committed for another image.
C6_LoadClearsHistory ==
    img # NoImg => \A i \in 1..Len(history) : history[i].gen = img.id

\* render(current source image, current controls)
Render ==
    DrawFull(Pic(img.pic), Pic(img.pic).w, Pic(img.pic).h, f, edgeDetect,
             kernelName, showOriginal).cv

\* C7 as claimed: at every quiescent state with an image loaded the working
\* raster equals the render of the current image under the current
\* controls, also after an undo or redo has restored a snapshot.
C7_RasterIsRender == (Quiescent /\ img # NoImg) => full = Render

\* C7 as amended: at every quiescent state with an image loaded the working
\* raster equals the render of the current image under the current
\* controls, unless the last write to the canvas was the restore of a
\* snapshot by undo or redo.
C7_RasterIsRenderUnlessRestored ==
    (Quiescent /\ img # NoImg /\ lastWrite # "restore") => full = Render

\* A snapshot was taken, undo restored the first entry, and a control was
\* changed after the restore had completed: the canvas holds the re-render.
C7_Witness ==
    /\ Quiescent
    /\ img # NoImg
    /\ pushCount = 2
    /\ Len(history) = 2
    /\ hIndex = 0
    /\ undoCalls = 1
    /\ editCount = 1
    /\ kernelName # "None"
    /\ lastWrite = "draw"
    /\ full = Render
    /\ full # history[1].url

\* The picture drawFull was called with.
PxPic == Pic(pxIn.pic)

\* The canvas has the size of the picture.
PxSized == pxIn.w = PxPic.w /\ pxIn.h = PxPic.h

\* C8: with showOriginal true drawFull runs no pixelation, tone, Sobel or
\* kernel stage, whatever the tone values, pixelate, edgeDetect and
\* kernelName are, and the canvas sized for the source holds the source
\* image pixel for pixel.
C8_ShowOriginalBypasses ==
    (pxOut.op = "drawFull" /\ pxIn.showOriginal) =>
        /\ pxOut.log = <<"copy">>
        /\ PxSized => pxOut.cv = PxPic

\* Every other stage is switched on, and the canvas still holds picture A.
C8_Witness ==
    /\ pxOut.op = "drawFull"
    /\ pxIn.showOriginal
    /\ pxIn.pic = "A"
    /\ PxSized
    /\ pxIn.f.pixelate > 1
    /\ ~IsNoOp(pxIn.f)
    /\ pxIn.edgeDetect
    /\ pxIn.kernelName # "None"
    /\ pxOut.cv = PicA

StageOrder == <<"pixelate", "tone", "sobel", "kernel">>

Rank(stage) == CHOOSE i \in 1..Len(StageOrder) : StageOrder[i] = stage

InLog(stage) == \E i \in 1..Len(pxOut.log) : pxOut.log[i] = stage

\* What the same drawFull leaves on the canvas with both optional effects off.
PxBase ==
    DrawFull(PxPic, pxIn.w, pxIn.h, pxIn.f, FALSE, "None", FALSE).cv

\* C9: with showOriginal false drawFull runs exactly the enabled stages, in
\* the order pixelation, tone mapping, Sobel, post kernel: the tone stage
\* never precedes pixelation on either path, and with edgeDetect and a post
\* kernel both on the canvas is the kernel applied to the Sobel output.
C9_StageOrder ==
    (pxOut.op = "drawFull" /\ ~pxIn.showOriginal) =>
        /\ \A i, j \in 1..Len(pxOut.log) :
              i < j => Rank(pxOut.log[i]) < Rank(pxOut.log[j])
        /\ InLog("pixelate") <=> pxIn.f.pixelate > 1
        /\ InLog("tone") <=> (pxIn.f.pixelate <= 1 \/ ~IsNoOp(pxIn.f))
        /\ InLog("sobel") <=> pxIn.edgeDetect
        /\ InLog("kernel") <=> pxIn.kernelName # "None"
        /\ (pxIn.edgeDetect /\ pxIn.kernelName # "None") =>
              pxOut.cv = ApplyKernel(ApplySobel(PxBase),
                                     KernelFromName(pxIn.kernelName))

\* All four stages ran on picture A, and the other order of the two effects
\* would have left different pixels.
C9_Witness ==
    /\ pxOut.op = "drawFull"
    /\ ~pxIn.showOriginal
    /\ pxIn.pic = "A"
    /\ PxSized
    /\ pxOut.log = StageOrder
    /\ pxOut.cv # ApplySobel(ApplyKernel(PxBase,
                                         KernelFromName(pxIn.kernelName)))

\* The picture has no interior pixel.
PxNoInterior == PxPic.w < 3 \/ PxPic.h < 3

\* drawFull ran pixelation alone, with a factor above the canvas size.
PxOverPixelated ==
    /\ pxOut.op = "drawFull"
    /\ pxOut.log = <<"pixelate">>
    /\ PxSized
    /\ (pxIn.f.pixelate > pxIn.w \/ pxIn.f.pixelate > pxIn.h)

\* C10: applyKernel and applySobel on a picture narrower or lower than 3
\* pixels, and pixelation with a factor above the width or height, leave
\* every pixel (alpha included) as it was in the input.
C10_DegenerateUnchanged ==
    /\ (pxOut.op \in {"applyKernel", "applySobel"} /\ PxNoInterior) =>
          pxOut.cv = PxPic
    /\ PxOverPixelated => pxOut.cv = PxPic

\* Every control is at the value it has after construction.
DefaultControls ==
    f = DefaultF /\ ~edgeDetect /\ kernelName = "None" /\ ~showOriginal

\* C11: the redraw with every control at its default leaves the working
\* raster with the dimensions of the source image and with every pixel of
\* it, alpha included.
C11_DefaultIsIdentity ==
    (img # NoImg /\ ~effectPending /\ lastWrite = "draw" /\ DefaultControls)
        => full = Pic(img.pic)

\* Picture C was loaded, the filters were reset and the redraw that follows
\* left picture C on the canvas.
C11_Witness ==
    /\ img.pic = "C"
    /\ editCount = 1
    /\ ~effectPending
    /\ lastWrite = "draw"
    /\ DefaultControls
    /\ full = PicC
    /\ full.w = 3 /\ full.h = 3

\* download is called while no canvas exists.
ExportWithoutRaster == dlCalls' # dlCalls /\ full = NoCanvas

\* C12: download called before any image has finished loading ends in the
\* outcome NothingToExport, leaves source image, history and cursor as they
\* are and hands no file to the browser.
C12_NothingToExport ==
    [][ExportWithoutRaster =>
          /\ dlOutcome' = "NothingToExport"
          /\ UNCHANGED <<img, history, hIndex, exported>>]_vars

\* image.onload runs: the loaded image becomes the source image.
OnloadStep == img' # img

\* The entry the step pushed holds the render of the new source image under
\* the current controls.
PushedRenderOfNew ==
    \E i \in 1..Len(history') :
        /\ history'[i].seq = pushCount'
        /\ history'[i].url = Render'

\* C13: the entry image.onload pushes is the render of the image that has
\* just loaded under the current controls, on the first load and on later
\* ones: never a blank raster, never a render of the image loaded before.
C13_OnloadPushesRender == [][OnloadStep => PushedRenderOfNew]_vars

\* Undo or redo has restored a snapshot, and every restore has completed
\* since.
RestoresSettled ==
    /\ restores = <<>>
    /\ ~effectPending
    /\ lastWrite = "restore"
    /\ Defined(history, hIndex)

\* C14: after undo and redo calls with no control change in between, once
\* every pending restore has completed the working raster is the entry
\* under the cursor: a restore started earlier never overwrites the result
\* of a later one.
C14_LastRestoreWins ==
    RestoresSettled =>
        full = Smooth(history[hIndex + 1].url, full.w, full.h)

====
